---------------------------- MODULE Spec2Model ----------------------------
(***************************************************************************)
(* Model of the aerospace trajectory pipeline:                             *)
(*   src/src/data_preprocessing.py  safe_diff, safe_div, preprocess_file,  *)
(*                                  preprocess_all                         *)
(*   src/src/merge_processed.py     merge_processed_files                  *)
(*   src/src/trajectory_loader.py   OpenSkyClient._ensure_token, get_track *)
(*                                                                         *)
(* Floating point cells are modelled exactly: a cell is a record           *)
(*   [k |-> "num", n, d]  the rational n/d in lowest terms, d > 0          *)
(*   [k |-> "nan"]        NaN (a missing value)                            *)
(*   [k |-> "inf", n]     +infinity (n = 1) or -infinity (n = -1)          *)
(*   [k |-> "str"]        a non-numeric string cell (unparsable time)      *)
(*   [k |-> "dt", n]      datetime64 value, n seconds after the epoch      *)
(*   [k |-> "nat"]        NaT (missing datetime)                           *)
(* Rounding of IEEE doubles is not modelled.                               *)
(***************************************************************************)
EXTENDS Integers, Sequences, FiniteSets, TLC

VARIABLES
    numerator, denominator, quotient, dpc,      \* a call of safe_div
    raw, out1, out2, fpc,                       \* preprocess_file on one file, and again on its result
    files, idx, results, artifact, bpc,         \* preprocess_all
    tables, merged, mpc,                        \* merge_processed_files
    token, token_time, headers, now, issued,    \* OpenSkyClient and its clock
    attempt, requests, unauthorized, refreshes, ret, tpc   \* a call of get_track

divVars   == <<numerator, denominator, quotient, dpc>>
fileVars  == <<raw, out1, out2, fpc>>
batchVars == <<files, idx, results, artifact, bpc>>
mergeVars == <<tables, merged, mpc>>
trackVars == <<token, token_time, headers, now, issued, attempt, requests, unauthorized,
               refreshes, ret, tpc>>
vars      == <<divVars, fileVars, batchVars, mergeVars, trackVars>>

-----------------------------------------------------------------------------
(* Cells and float arithmetic *)

Abs(x) == IF x < 0 THEN -x ELSE x

\* the function f on 1..n held as a sequence (evaluated once)
AsSeq(f) == SubSeq(f, 1, Len(f))

RECURSIVE GCD(_, _)
GCD(a, b) == IF b = 0 THEN a ELSE GCD(b, a % b)

Num(n, d) ==
    LET g == GCD(Abs(n), Abs(d))
        s == IF d < 0 THEN -1 ELSE 1
    IN  [k |-> "num", n |-> (s * n) \div g, d |-> (s * d) \div g]

Int2Cell(i) == [k |-> "num", n |-> i, d |-> 1]
NaN    == [k |-> "nan", n |-> 0, d |-> 1]
PosInf == [k |-> "inf", n |-> 1, d |-> 1]
NegInf == [k |-> "inf", n |-> -1, d |-> 1]
StrCell == [k |-> "str", n |-> 0, d |-> 1]
NaT    == [k |-> "nat", n |-> 0, d |-> 1]
Dt(s)  == [k |-> "dt", n |-> s, d |-> 1]

isna(c)    == c.k \in {"nan", "nat"}
IsInf(c)   == c.k = "inf"
IsNum(c)   == c.k = "num"
IsZero(c)  == c.k = "num" /\ c.n = 0
Sign(c)    == IF c.n > 0 THEN 1 ELSE IF c.n < 0 THEN -1 ELSE 0
InfOf(s)   == IF s > 0 THEN PosInf ELSE NegInf

\* numerator / denominator on float64 cells (numpy true division)
FDiv(a, b) ==
    CASE isna(a) \/ isna(b)        -> NaN
      [] IsInf(a) /\ IsInf(b)      -> NaN
      [] IsInf(a) /\ IsZero(b)     -> a
      [] IsInf(a)                  -> InfOf(Sign(a) * Sign(b))
      [] IsInf(b)                  -> Int2Cell(0)
      [] IsZero(b) /\ IsZero(a)    -> NaN
      [] IsZero(b)                 -> InfOf(Sign(a))
      [] OTHER                     -> Num(a.n * b.d, a.d * b.n)

\* a - b on float64 cells
FSub(a, b) ==
    CASE isna(a) \/ isna(b)                   -> NaN
      [] IsInf(a) /\ IsInf(b) /\ a.n = b.n    -> NaN
      [] IsInf(a)                             -> a
      [] IsInf(b)                             -> InfOf(-b.n)
      [] OTHER                                -> Num(a.n * b.d - b.n * a.d, a.d * b.d)

\* a * b on float64 cells
FMul(a, b) ==
    CASE isna(a) \/ isna(b)                              -> NaN
      [] (IsInf(a) /\ IsZero(b)) \/ (IsZero(a) /\ IsInf(b)) -> NaN
      [] IsInf(a) \/ IsInf(b)                            -> InfOf(Sign(a) * Sign(b))
      [] OTHER                                           -> Num(a.n * b.n, a.d * b.d)

\* Series.fillna(v), Series.replace(0, v), Series.replace([inf, -inf], v)
fillna(s, v)       == AsSeq([i \in DOMAIN s |-> IF isna(s[i]) THEN v ELSE s[i]])
replace_zero(s, v) == AsSeq([i \in DOMAIN s |-> IF IsZero(s[i]) THEN v ELSE s[i]])
replace_inf(s, v)  == AsSeq([i \in DOMAIN s |-> IF IsInf(s[i]) THEN v ELSE s[i]])

\* Series.diff(): element i minus element i-1, NaN at the first position
diff(s) == AsSeq([i \in DOMAIN s |-> IF i = 1 THEN NaN ELSE FSub(s[i], s[i - 1])])

\* safe_diff(series) for a present series
safe_diff(s) == fillna(diff(s), Int2Cell(0))

\* numerator / denominator on two series with the same index
series_div(a, b) == AsSeq([i \in DOMAIN a |-> FDiv(a[i], b[i])])

\* a plausible slip: the trailing .fillna(0) left out
safe_div_nofill(a, b) ==
    replace_inf(series_div(a, replace_zero(b, NaN)), Int2Cell(0))

safe_div(a, b) ==
    fillna(replace_inf(series_div(a, replace_zero(b, NaN)), Int2Cell(0)), Int2Cell(0))

-----------------------------------------------------------------------------
(* A call of safe_div on two equal-length series *)

MaxDivLen == 2

DivCells == {NaN, PosInf, NegInf, Int2Cell(0), Int2Cell(3), Int2Cell(-2)}

DivIdle == numerator = <<>> /\ denominator = <<>> /\ quotient = <<>> /\ dpc = "idle"

DivInit ==
    /\ \E m \in 0..MaxDivLen :
         /\ numerator \in [1..m -> DivCells]
         /\ denominator \in [1..m -> DivCells]
    /\ quotient = <<>>
    /\ dpc = "call"

SafeDivCall ==
    /\ dpc = "call"
    /\ quotient' = safe_div(numerator, denominator)
    /\ dpc' = "returned"
    /\ UNCHANGED <<numerator, denominator>>

-----------------------------------------------------------------------------
(* DataFrames: [cols |-> the column names, rows |-> the rows in index order].  *)
(* A row carries a cell for every column of the model; a column the frame does *)
(* not have holds the placeholder NaN (icao24: "") in every row.               *)

essential_cols == {"time", "latitude", "longitude", "baro_altitude"}
numeric_cols   == {"latitude", "longitude", "baro_altitude", "velocity"}
derived_cols   == {"delta_time", "delta_lat", "delta_lon", "delta_altitude",
                   "delta_velocity", "vx", "vy", "v_vertical", "ax", "ay",
                   "a_vertical", "delta_heading"}

DEG_TO_M == 111000

Row(t, lat, lon, alt, vel, icao) ==
    [time |-> t, latitude |-> lat, longitude |-> lon, baro_altitude |-> alt,
     velocity |-> vel, icao24 |-> icao,
     delta_time |-> NaN, delta_lat |-> NaN, delta_lon |-> NaN,
     delta_altitude |-> NaN, delta_velocity |-> NaN, vx |-> NaN, vy |-> NaN,
     v_vertical |-> NaN, ax |-> NaN, ay |-> NaN, a_vertical |-> NaN,
     delta_heading |-> NaN]

Column(rows, c) == AsSeq([i \in DOMAIN rows |-> rows[i][c]])
SetColumn(rows, c, s) == AsSeq([i \in DOMAIN rows |-> [rows[i] EXCEPT ![c] = s[i]]])
Constant(rows, v) == AsSeq([i \in DOMAIN rows |-> v])

\* the rows at the indices in K, in index order (boolean indexing + reset_index)
RECURSIVE Keep(_, _)
Keep(rows, K) ==
    IF rows = <<>> THEN <<>>
    ELSE LET n == Len(rows)
             front == Keep(SubSeq(rows, 1, n - 1), K)
         IN  IF n \in K THEN Append(front, rows[n]) ELSE front

\* DataFrame.dropna(subset=cols): rows with a missing cell in any of cols go
dropna(rows, cols) ==
    Keep(rows, {i \in DOMAIN rows : \A c \in cols : ~isna(rows[i][c])})

\* pd.to_datetime(cell, unit="s", errors="coerce"): a number is seconds after
\* the epoch, a datetime passes through, anything else is coerced to NaT
to_datetime(c) ==
    CASE c.k = "dt"                 -> c
      [] c.k = "num" /\ c.d = 1     -> Dt(c.n)
      [] OTHER                      -> NaT

RowOrders(n) == {p \in [1..n -> 1..n] : \A i, j \in 1..n : p[i] = p[j] => i = j}

\* a plausible slip: the sort left out
sort_values_none(rows) == {rows}

\* DataFrame.sort_values("time") with the default kind="quicksort", which is
\* not stable: rows with equal time may come out in any order
sort_values(rows) ==
    {AsSeq([i \in DOMAIN rows |-> rows[p[i]]]) : p \in
        {q \in RowOrders(Len(rows)) :
            \A i \in 1..(Len(rows) - 1) : rows[q[i]].time.n <= rows[q[i + 1]].time.n}}

\* DataFrame.drop_duplicates(): a row equal in every column to an earlier row goes
drop_duplicates(rows) ==
    Keep(rows, {i \in DOMAIN rows : \A j \in 1..(i - 1) : rows[j] # rows[i]})

\* Series.interpolate(method="linear"): a gap between two valid cells is filled
\* on the straight line between them (by position), a gap after the last valid
\* cell takes that cell's value, a gap before the first valid cell stays
interpolate(s) ==
    AsSeq([i \in DOMAIN s |->
        IF ~isna(s[i]) THEN s[i]
        ELSE LET before == {j \in 1..(i - 1) : ~isna(s[j])}
                 after  == {j \in (i + 1)..Len(s) : ~isna(s[j])}
             IN  IF before = {} THEN NaN
                 ELSE LET a == CHOOSE j \in before : \A m \in before : m <= j
                      IN  IF after = {} THEN s[a]
                          ELSE LET b == CHOOSE j \in after : \A m \in after : j <= m
                               IN  Num(s[a].n * s[b].d * (b - a)
                                         + (s[b].n * s[a].d - s[a].n * s[b].d) * (i - a),
                                       s[a].d * s[b].d * (b - a))])

\* Series.fillna(method="bfill"): a missing cell takes the next valid cell
bfill(s) ==
    AsSeq([i \in DOMAIN s |->
        IF ~isna(s[i]) THEN s[i]
        ELSE LET after == {j \in (i + 1)..Len(s) : ~isna(s[j])}
             IN  IF after = {} THEN s[i]
                 ELSE s[CHOOSE j \in after : \A m \in after : j <= m]])

\* Series.fillna(method="ffill"): a missing cell takes the last valid cell
ffill(s) ==
    AsSeq([i \in DOMAIN s |->
        IF ~isna(s[i]) THEN s[i]
        ELSE LET before == {j \in 1..(i - 1) : ~isna(s[j])}
             IN  IF before = {} THEN s[i]
                 ELSE s[CHOOSE j \in before : \A m \in before : m <= j]])

\* df[col].interpolate(method="linear").fillna(method="bfill").fillna(method="ffill")
fill_gaps(s) == ffill(bfill(interpolate(s)))

-----------------------------------------------------------------------------
(* preprocess_file.  A raw file is                                          *)
(*   [size_ok  |-> os.path.getsize(filepath) >= 10,                         *)
(*    readable |-> pd.read_csv(filepath) returns (it raises otherwise),     *)
(*    cols, rows |-> the frame read_csv returns]                            *)
(* and the result is [kind, cols, rows]: kind "none" for a returned None,   *)
(* "raise" for an exception leaving preprocess_file, "df" for a frame.      *)

None    == [kind |-> "none", cols |-> {}, rows |-> <<>>]
Raised  == [kind |-> "raise", cols |-> {}, rows |-> <<>>]
Frame(cols, rows) == [kind |-> "df", cols |-> cols, rows |-> rows]

\* STEP 1: df["velocity"] = 0.0 when the column is missing
with_velocity(f) ==
    IF "velocity" \in f.cols THEN f.rows
    ELSE SetColumn(f.rows, "velocity", Constant(f.rows, Int2Cell(0)))

\* STEP 2, first half: df.dropna(subset=essential_cols).reset_index(drop=True)
usable_rows(f) == dropna(with_velocity(f), essential_cols)

\* STEP 2, second half: time parsed, rows whose time did not parse dropped
timed_rows(rows) ==
    dropna(SetColumn(rows, "time", AsSeq([i \in DOMAIN rows |-> to_datetime(rows[i].time)])),
           {"time"})

\* STEP 3: every numeric column gap-filled (a missing one becomes 0)
fill_numeric(cols, rows) ==
    LET col(c) == IF c \in cols THEN fill_gaps(Column(rows, c))
                  ELSE Constant(rows, Int2Cell(0))
    IN  AsSeq([i \in DOMAIN rows |->
            [rows[i] EXCEPT !.latitude = col("latitude")[i],
                            !.longitude = col("longitude")[i],
                            !.baro_altitude = col("baro_altitude")[i],
                            !.velocity = col("velocity")[i]]])

\* df["time"].diff().dt.total_seconds()
diff_seconds(s) ==
    AsSeq([i \in DOMAIN s |-> IF i = 1 THEN NaN ELSE Int2Cell(s[i].n - s[i - 1].n)])

\* a plausible slip: the difference taken the wrong way round
delta_time_reversed(times) ==
    replace_zero(fillna(AsSeq([i \in DOMAIN times |->
                           IF i = 1 THEN NaN ELSE Int2Cell(times[i - 1].n - times[i].n)]),
                        Int2Cell(1)), Int2Cell(1))

\* df["time"].diff().dt.total_seconds().fillna(1), then .replace(0, 1)
delta_time(times) ==
    replace_zero(fillna(diff_seconds(times), Int2Cell(1)), Int2Cell(1))

scale(s, m) == AsSeq([i \in DOMAIN s |-> FMul(s[i], Int2Cell(m))])

\* STEP 4: feature engineering (the frames of the model have no heading column)
derive(cols, rows) ==
    LET dt    == delta_time(Column(rows, "time"))
        dlat  == safe_diff(Column(rows, "latitude"))
        dlon  == safe_diff(Column(rows, "longitude"))
        dalt  == safe_diff(Column(rows, "baro_altitude"))
        dvel  == safe_diff(Column(rows, "velocity"))
        vx    == safe_div(scale(dlon, DEG_TO_M), dt)
        vy    == safe_div(scale(dlat, DEG_TO_M), dt)
        vv    == safe_div(dalt, dt)
        ax    == safe_div(safe_diff(vx), dt)
        ay    == safe_div(safe_diff(vy), dt)
        av    == safe_div(safe_diff(vv), dt)
    IN  AsSeq([i \in DOMAIN rows |->
            [rows[i] EXCEPT !.delta_time = dt[i], !.delta_lat = dlat[i],
                            !.delta_lon = dlon[i], !.delta_altitude = dalt[i],
                            !.delta_velocity = dvel[i], !.vx = vx[i], !.vy = vy[i],
                            !.v_vertical = vv[i], !.ax = ax[i], !.ay = ay[i],
                            !.a_vertical = av[i],
                            !.delta_heading = IF "heading" \in cols THEN NaN
                                              ELSE Int2Cell(0)]])

\* df["icao24"] = df["icao24"].iloc[0] if "icao24" in df.columns else "unknown";
\* .iloc[0] of an empty column raises IndexError
set_icao24(cols, rows) ==
    IF "icao24" \in cols /\ Len(rows) = 0 THEN Raised
    ELSE Frame(cols \cup {"velocity", "icao24"} \cup derived_cols,
               AsSeq([i \in DOMAIN rows |->
                   [rows[i] EXCEPT !.icao24 = IF "icao24" \in cols THEN rows[1].icao24
                                              ELSE "unknown"]]))

\* the code after the sort, on one outcome of the sort
after_sort(cols, sorted) ==
    set_icao24(cols, derive(cols, fill_numeric(cols \cup {"velocity"},
                                                drop_duplicates(sorted))))

\* the results preprocess_file(filepath) can return for the raw file f
preprocess_file(f) ==
    IF ~f.size_ok THEN {None}
    ELSE IF ~f.readable THEN {Raised}
    ELSE IF ~(essential_cols \subseteq f.cols) THEN {None}
    ELSE IF Len(usable_rows(f)) = 0 THEN {None}
    ELSE {after_sort(f.cols, s) : s \in sort_values(timed_rows(usable_rows(f)))}

-----------------------------------------------------------------------------
(* One raw file through preprocess_file, and the cleaned trajectory it      *)
(* returns through the cleaner a second time.                               *)

MaxRows == 3

TimeCells == {NaN, StrCell, Int2Cell(0), Int2Cell(10), Int2Cell(20)}
VelCells  == {NaN, Int2Cell(2), Int2Cell(4)}
AllCols   == essential_cols \cup {"velocity", "icao24"}

RawFile(cols, rows) == [size_ok |-> TRUE, readable |-> TRUE, cols |-> cols, rows |-> rows]
TinyFile   == [size_ok |-> FALSE, readable |-> TRUE, cols |-> {}, rows |-> <<>>]
BrokenFile == [size_ok |-> TRUE, readable |-> FALSE, cols |-> {}, rows |-> <<>>]

\* a row of a raw file: latitude 1, longitude 5, altitude 7, and the icao24
\* cell ("" in a file without the column)
RawRow(t, v, icao) == Row(t, Int2Cell(1), Int2Cell(5), Int2Cell(7), v, icao)

RawTable(m, ts, vs, icao) == AsSeq([i \in 1..m |-> RawRow(ts[i], vs[i], icao)])

\* Scenario C of the specification: timestamps [0, 10, 10, 20], one row repeated
ScenarioC ==
    RawFile(AllCols,
            <<Row(Int2Cell(0), Int2Cell(1), Int2Cell(5), Int2Cell(7), Int2Cell(2), "a"),
              Row(Int2Cell(10), Int2Cell(1), Int2Cell(5), Int2Cell(7), Int2Cell(2), "a"),
              Row(Int2Cell(10), Int2Cell(1), Int2Cell(5), Int2Cell(7), Int2Cell(2), "a"),
              Row(Int2Cell(20), Int2Cell(1), Int2Cell(5), Int2Cell(7), Int2Cell(2), "a")>>)

\* Scenario D of the specification: latitude [1.0, NaN, 3.0] at times [0, 10, 20]
ScenarioD ==
    RawFile(AllCols,
            <<Row(Int2Cell(0), Int2Cell(1), Int2Cell(5), Int2Cell(7), Int2Cell(2), "a"),
              Row(Int2Cell(10), NaN, Int2Cell(5), Int2Cell(7), Int2Cell(2), "a"),
              Row(Int2Cell(20), Int2Cell(3), Int2Cell(5), Int2Cell(7), Int2Cell(2), "a")>>)

\* the raw files of the model
IsRawFile(f) ==
    \/ f \in {TinyFile, BrokenFile, ScenarioC, ScenarioD}
    \/ \E m \in 0..MaxRows : \E ts \in [1..m -> TimeCells], vs \in [1..m -> VelCells] :
         f = RawFile(AllCols, RawTable(m, ts, vs, "a"))
    \/ \E m \in 0..MaxRows : \E ts \in [1..m -> TimeCells] :
         \/ f = RawFile(AllCols \ {"icao24"},
                        RawTable(m, ts, AsSeq([i \in 1..m |-> Int2Cell(2)]), ""))
         \/ f = RawFile(AllCols \ {"velocity"}, RawTable(m, ts, AsSeq([i \in 1..m |-> NaN]), "a"))
         \/ m <= 1 /\ f = RawFile(AllCols \ {"baro_altitude"},
                                  AsSeq([i \in 1..m |-> [RawRow(ts[i], Int2Cell(2), "a")
                                                      EXCEPT !.baro_altitude = NaN]]))

\* the cleaned trajectory held in a returned frame, as input of another pass
CleanedView(r) ==
    RawFile(r.cols \ derived_cols,
            AsSeq([i \in DOMAIN r.rows |->
                Row(r.rows[i].time, r.rows[i].latitude, r.rows[i].longitude,
                    r.rows[i].baro_altitude, r.rows[i].velocity, r.rows[i].icao24)]))

FileIdle == raw = TinyFile /\ out1 = None /\ out2 = None /\ fpc = "idle"

FileInit ==
    /\ IsRawFile(raw)
    /\ out1 = None
    /\ out2 = None
    /\ fpc = "raw"

\* preprocess_file(filepath)
Preprocess ==
    /\ fpc = "raw"
    /\ out1' \in preprocess_file(raw)
    /\ fpc' = "once"
    /\ UNCHANGED <<raw, out2>>

\* the cleaner run on the trajectory it returned
Reclean ==
    /\ fpc = "once"
    /\ out1.kind = "df"
    /\ out2' \in preprocess_file(CleanedView(out1))
    /\ fpc' = "twice"
    /\ UNCHANGED <<raw, out1>>

-----------------------------------------------------------------------------
(* preprocess_all: the files glob found, the index of the next one, the     *)
(* result of every call of preprocess_file so far, and the content of       *)
(* OUTPUT_CSV (Stale: what was there before the run).                       *)

MaxFiles == 3

Stale == [kind |-> "stale", cols |-> {}, rows |-> <<>>]

GoodFile(t, v) ==
    RawFile(AllCols, <<RawRow(Int2Cell(0), Int2Cell(v), "a"),
                       RawRow(Int2Cell(t), NaN, "a")>>)

\* the raw files of the batch model: two files that give a trajectory, a file
\* under 10 bytes, one read_csv cannot parse, one without baro_altitude, and
\* two whose every timestamp is unparsable (with and without an icao24 column)
BatchFiles ==
    {GoodFile(10, 2), GoodFile(20, 4), TinyFile, BrokenFile,
     RawFile(AllCols \ {"baro_altitude"},
             <<[RawRow(Int2Cell(0), Int2Cell(2), "a") EXCEPT !.baro_altitude = NaN]>>),
     RawFile(AllCols, <<RawRow(StrCell, Int2Cell(2), "a")>>),
     RawFile(AllCols \ {"icao24"}, <<RawRow(StrCell, Int2Cell(2), "")>>)}

\* a plausible slip: the output is only written when it does not exist yet
to_csv_once(old, df) == IF old = Stale THEN df ELSE old

\* df.to_csv(OUTPUT_CSV, index=False): the file's content after the call
to_csv(old, df) == df

BatchInit ==
    /\ \E n \in 0..MaxFiles : files \in [1..n -> BatchFiles]
    /\ idx = 1
    /\ results = <<>>
    /\ artifact = Stale
    /\ bpc = "loop"

\* one iteration of "for filepath in files"
Iterate ==
    /\ bpc = "loop"
    /\ idx <= Len(files)
    /\ \E df \in preprocess_file(files[idx]) :
         /\ results' = Append(results, df)
         /\ bpc' = IF df.kind = "raise" THEN "aborted" ELSE "loop"
         /\ idx' = IF df.kind = "raise" THEN idx ELSE idx + 1
         /\ artifact' = IF df.kind = "df" THEN to_csv(artifact, df) ELSE artifact
    /\ UNCHANGED files

\* the loop is over and preprocess_all returns
Return ==
    /\ bpc = "loop"
    /\ idx > Len(files)
    /\ bpc' = "done"
    /\ UNCHANGED <<files, idx, results, artifact>>

-----------------------------------------------------------------------------
(* merge_processed_files.  The directory listing is a sequence of CSV files *)
(* [merged |-> "merged_dataset" is in the path, rows |-> the time column];  *)
(* a row of the merged frame is [flight_id, time, src, pos], src and pos    *)
(* being the file (counted after the filter) and row it came from.          *)

MaxTables    == 3
MaxTableRows == 2

TableTimes == {0, 10}

\* Scenario E of the specification: two processed tables of 5 and 7 rows
ScenarioE ==
    <<[merged |-> FALSE, rows |-> <<0, 10, 20, 30, 40>>],
      [merged |-> FALSE, rows |-> <<0, 10, 20, 30, 40, 50, 60>>]>>

\* the decimal digits of k, most significant first
RECURSIVE Digits(_)
Digits(k) == IF k < 10 THEN <<k>> ELSE Append(Digits(k \div 10), k % 10)

\* f"{k:03d}": the digits of k, zero-padded on the left to at least 3
Format03d(k) ==
    LET ds == Digits(k)
    IN  IF Len(ds) >= 3 THEN ds ELSE AsSeq([i \in 1..(3 - Len(ds)) |-> 0]) \o ds

\* a plausible slip: the flight number taken from the 0-based index
flight_id_from_zero(i) == Format03d(i)

\* flight_id = f"flight_{idx+1:03d}" for the 0-based index i: the characters
\* after the prefix "flight_"
flight_id(i) == Format03d(i + 1)

\* a < b for two strings (sequences of characters), as Python orders them
RECURSIVE StrLess(_, _)
StrLess(a, b) ==
    IF b = <<>> THEN FALSE
    ELSE IF a = <<>> THEN TRUE
    ELSE IF Head(a) # Head(b) THEN Head(a) < Head(b)
    ELSE StrLess(Tail(a), Tail(b))

\* row a sorts before row b under by=["flight_id", "time"]
RowLess(a, b) ==
    \/ StrLess(a.flight_id, b.flight_id)
    \/ a.flight_id = b.flight_id /\ a.time < b.time

\* sort_values(by=["flight_id", "time"]): a stable sort on the two keys
RECURSIVE sort_by_flight_time(_)
sort_by_flight_time(rows) ==
    IF rows = <<>> THEN <<>>
    ELSE LET m == CHOOSE i \in DOMAIN rows :
                     /\ \A j \in DOMAIN rows : ~RowLess(rows[j], rows[i])
                     /\ \A j \in 1..(i - 1) : RowLess(rows[i], rows[j])
         IN  <<rows[m]>> \o sort_by_flight_time(Keep(rows, DOMAIN rows \ {m}))

\* files = [f for f in files if "merged_dataset" not in f]
unmerged(listing) == Keep(listing, {i \in DOMAIN listing : ~listing[i].merged})

\* df = pd.read_csv(filepath); df["flight_id"] = flight_id, for enumerate index i
tagged(fs, i) ==
    AsSeq([p \in DOMAIN fs[i + 1].rows |->
              [flight_id |-> flight_id(i), time |-> fs[i + 1].rows[p],
               src |-> i + 1, pos |-> p]])

\* pd.concat(all_dfs, ignore_index=True) of the files tagged so far
RECURSIVE concat(_, _)
concat(fs, n) == IF n = 0 THEN <<>> ELSE concat(fs, n - 1) \o tagged(fs, n - 1)

merge_processed_files(listing) ==
    LET fs == unmerged(listing)
    IN  IF Len(fs) = 0 THEN <<>>
        ELSE sort_by_flight_time(concat(fs, Len(fs)))

\* the CSV files the listing is drawn from: processed tables, and the merged
\* dataset a previous run left
Listed ==
    {[merged |-> FALSE, rows |-> r] :
        r \in UNION {[1..m -> TableTimes] : m \in 0..MaxTableRows}}
    \cup {[merged |-> TRUE, rows |-> <<0>>]}

MergeInit ==
    /\ \/ \E n \in 0..MaxTables : tables \in [1..n -> Listed]
       \/ tables = ScenarioE
    /\ merged = <<>>
    /\ mpc = "start"

\* the merge finds no processed file: it reports the error and returns None
MergeNothing ==
    /\ mpc = "start"
    /\ Len(unmerged(tables)) = 0
    /\ mpc' = "none"
    /\ UNCHANGED <<tables, merged>>

\* the merge: merged is the frame written to OUTPUT_CSV and returned
Merge ==
    /\ mpc = "start"
    /\ Len(unmerged(tables)) > 0
    /\ merged' = merge_processed_files(tables)
    /\ mpc' = "merged"
    /\ UNCHANGED tables

-----------------------------------------------------------------------------
(* OpenSkyClient.get_track.  token 0 is None, token n > 0 the n-th token    *)
(* get_access_token issued; headers holds the token sent as Bearer.         *)
(* requests counts the GETs sent, unauthorized the 401 responses, refreshes *)
(* the calls of get_access_token made after a 401.                          *)

token_ttl == 600
retries   == 3

Responses == {"200", "200-no-path", "401", "404", "500", "transport"}

\* _ensure_token's test: not self.token or now - self.token_time > self.token_ttl - 10
needs_token(tok, since, clock) == tok = 0 \/ clock - since > token_ttl - 10

TrackInit ==
    /\ \/ token = 0 /\ headers = 0 /\ issued = 0 /\ token_time = 0
       \/ token = 1 /\ headers = 1 /\ issued = 1 /\ token_time = 0
    /\ now \in {token_ttl - 10, token_ttl - 9}
    /\ attempt = 0 /\ requests = 0 /\ unauthorized = 0 /\ refreshes = 0
    /\ ret = "pending" /\ tpc = "enter"

\* get_track up to the loop: self._ensure_token(); get_access_token returns a
\* token (ok is TRUE) or raises, and what it raises leaves get_track
Enter ==
    /\ tpc = "enter"
    /\ \E ok \in BOOLEAN :
         IF ~needs_token(token, token_time, now)
         THEN /\ ok
              /\ tpc' = "loop" /\ attempt' = 1
              /\ UNCHANGED <<token, token_time, headers, issued, ret>>
         ELSE IF ok
         THEN /\ token' = issued + 1 /\ issued' = issued + 1
              /\ token_time' = now /\ headers' = issued + 1
              /\ tpc' = "loop" /\ attempt' = 1
              /\ UNCHANGED ret
         ELSE /\ tpc' = "returned" /\ ret' = "raise"
              /\ UNCHANGED <<token, token_time, headers, issued, attempt>>
    /\ UNCHANGED <<now, requests, unauthorized, refreshes>>

\* a plausible slip: the 401 branch returns None instead of refreshing
on_unauthorized_give_up(refresh) ==
    /\ unauthorized' = unauthorized + 1
    /\ tpc' = "returned" /\ ret' = "none"
    /\ UNCHANGED <<token, token_time, headers, now, issued, attempt, refreshes>>

\* status 401: self.token = None; self._ensure_token(); continue.
\* refresh is what get_access_token does: "ok" returns a token, "transport" is
\* a requests exception (caught by the loop's except: sleep(2), next attempt),
\* "error" any other exception (it leaves get_track)
on_unauthorized(refresh) ==
    /\ unauthorized' = unauthorized + 1
    /\ refreshes' = refreshes + 1
    /\ CASE refresh = "ok" ->
              /\ token' = issued + 1 /\ issued' = issued + 1
              /\ token_time' = now /\ headers' = issued + 1
              /\ attempt' = attempt + 1
              /\ UNCHANGED <<now, ret, tpc>>
         [] refresh = "transport" ->
              /\ token' = 0 /\ now' = now + 2
              /\ attempt' = attempt + 1
              /\ UNCHANGED <<token_time, headers, issued, ret, tpc>>
         [] OTHER ->
              /\ token' = 0
              /\ tpc' = "returned" /\ ret' = "raise"
              /\ UNCHANGED <<token_time, headers, now, issued, attempt>>

\* one pass of "for attempt in range(1, retries + 1)": the GET and its handling
Request ==
    /\ tpc = "loop"
    /\ attempt <= retries
    /\ requests' = requests + 1
    /\ \E resp \in Responses, refresh \in {"ok", "transport", "error"} :
         CASE resp = "401" -> on_unauthorized(refresh)
           [] resp = "transport" ->
                /\ refresh = "ok"
                /\ now' = now + 2 /\ attempt' = attempt + 1
                /\ UNCHANGED <<token, token_time, headers, issued, unauthorized,
                               refreshes, ret, tpc>>
           [] OTHER ->
                /\ refresh = "ok"
                /\ tpc' = "returned"
                /\ ret' = IF resp = "200" THEN "df" ELSE "none"
                /\ UNCHANGED <<token, token_time, headers, now, issued, attempt,
                               unauthorized, refreshes>>

\* the loop ran out of attempts: "Failed to retrieve track", return None
Exhausted ==
    /\ tpc = "loop"
    /\ attempt > retries
    /\ tpc' = "returned" /\ ret' = "none"
    /\ UNCHANGED <<token, token_time, headers, now, issued, attempt, requests,
                   unauthorized, refreshes>>

-----------------------------------------------------------------------------
(* Specifications: one per component, the other components idle *)

BatchIdle == files = <<>> /\ idx = 0 /\ results = <<>> /\ artifact = Stale /\ bpc = "idle"
MergeIdle == tables = <<>> /\ merged = <<>> /\ mpc = "idle"
TrackIdle ==
    /\ token = 0 /\ token_time = 0 /\ headers = 0 /\ now = 0 /\ issued = 0
    /\ attempt = 0 /\ requests = 0 /\ unauthorized = 0 /\ refreshes = 0
    /\ ret = "idle" /\ tpc = "idle"

DivNext == SafeDivCall /\ UNCHANGED <<fileVars, batchVars, mergeVars, trackVars>>
DivStart == DivInit /\ FileIdle /\ BatchIdle /\ MergeIdle /\ TrackIdle
SpecDiv == DivStart /\ [][DivNext]_vars

FileNext ==
    \/ Preprocess /\ UNCHANGED <<divVars, batchVars, mergeVars, trackVars>>
    \/ Reclean /\ UNCHANGED <<divVars, batchVars, mergeVars, trackVars>>
FileStart == FileInit /\ DivIdle /\ BatchIdle /\ MergeIdle /\ TrackIdle
SpecFile == FileStart /\ [][FileNext]_vars

BatchNext ==
    \/ Iterate /\ UNCHANGED <<divVars, fileVars, mergeVars, trackVars>>
    \/ Return /\ UNCHANGED <<divVars, fileVars, mergeVars, trackVars>>
BatchStart == BatchInit /\ DivIdle /\ FileIdle /\ MergeIdle /\ TrackIdle
SpecBatch == BatchStart /\ [][BatchNext]_vars

MergeNext ==
    \/ MergeNothing /\ UNCHANGED <<divVars, fileVars, batchVars, trackVars>>
    \/ Merge /\ UNCHANGED <<divVars, fileVars, batchVars, trackVars>>
MergeStart == MergeInit /\ DivIdle /\ FileIdle /\ BatchIdle /\ TrackIdle
SpecMerge == MergeStart /\ [][MergeNext]_vars

TrackNext ==
    \/ Enter /\ UNCHANGED <<divVars, fileVars, batchVars, mergeVars>>
    \/ Request /\ UNCHANGED <<divVars, fileVars, batchVars, mergeVars>>
    \/ Exhausted /\ UNCHANGED <<divVars, fileVars, batchVars, mergeVars>>
TrackStart == TrackInit /\ DivIdle /\ FileIdle /\ BatchIdle /\ MergeIdle
SpecTrack == TrackStart /\ [][TrackNext]_vars


\* the whole program: any one of the components started
Init == DivStart \/ FileStart \/ BatchStart \/ MergeStart \/ TrackStart
Next == DivNext \/ FileNext \/ BatchNext \/ MergeNext \/ TrackNext
Spec == Init /\ [][Next]_vars

-----------------------------------------------------------------------------
(* Properties *)

Returned1 == fpc \in {"once", "twice"} /\ out1.kind = "df"
TimeAt(r, i) == r.rows[i].time.n
StrictlyAscending(r) == \A i \in 2..Len(r.rows) : TimeAt(r, i) > TimeAt(r, i - 1)
Ascending(r) == \A i \in 2..Len(r.rows) : TimeAt(r, i) >= TimeAt(r, i - 1)
ParsedRows(f) == timed_rows(usable_rows(f))
PassesSkipChecks(f) == f.size_ok /\ f.readable /\ essential_cols \subseteq f.cols

\* C1: in preprocess_all no file's None or exception aborts the batch: the
\* loop reaches the end of the list and every file was given to preprocess_file.
C1_NoFileAbortsTheBatch ==
    /\ bpc # "aborted"
    /\ bpc = "done" => Len(results) = Len(files)

\* C2, as claimed: the times of a returned trajectory are strictly ascending
\* (no two rows share a timestamp), and Scenario C gives times [0, 10, 20].
C2_StrictlyAscending ==
    Returned1 =>
        /\ StrictlyAscending(out1)
        /\ raw = ScenarioC => AsSeq([i \in DOMAIN out1.rows |-> TimeAt(out1, i)]) = <<0, 10, 20>>

\* C2, amended: the times of a returned trajectory are ascending but not
\* strictly (time[i] >= time[i-1]); only rows equal in every column to an
\* earlier parsed row are removed, so the trajectory has one row per distinct
\* parsed row; Scenario C, whose two rows at 10 are equal, gives [0, 10, 20].
C2_AscendingDistinctRows ==
    Returned1 =>
        /\ Ascending(out1)
        /\ Len(out1.rows) = Cardinality({ParsedRows(raw)[i] : i \in DOMAIN ParsedRows(raw)})
        /\ raw = ScenarioC => AsSeq([i \in DOMAIN out1.rows |-> TimeAt(out1, i)]) = <<0, 10, 20>>

\* two rows of a returned trajectory share a timestamp
C2_Witness ==
    /\ Returned1
    /\ \E i \in 2..Len(out1.rows) : TimeAt(out1, i) = TimeAt(out1, i - 1)

\* C3: no numeric column of a returned trajectory holds a missing value.
C3_NoMissingNumeric ==
    Returned1 =>
        \A i \in DOMAIN out1.rows : \A c \in numeric_cols : ~isna(out1.rows[i][c])

\* C4: safe_div is total element by element: 0 where the denominator is 0,
\* 0 where the quotient is infinite or undefined, the quotient elsewhere, and
\* never an infinite or missing element.
C4_SafeDivTotal ==
    dpc = "returned" =>
        /\ Len(quotient) = Len(numerator)
        /\ \A i \in DOMAIN numerator :
             LET q == FDiv(numerator[i], denominator[i])
             IN  /\ IsNum(quotient[i])
                 /\ IsZero(denominator[i]) => quotient[i] = Int2Cell(0)
                 /\ (IsInf(q) \/ isna(q)) => quotient[i] = Int2Cell(0)
                 /\ (~IsZero(denominator[i]) /\ IsNum(q)) => quotient[i] = q

\* safe_div returned for a zero denominator under a non-zero numerator, beside
\* an ordinary quotient
C4_Witness ==
    /\ dpc = "returned"
    /\ \E i, j \in DOMAIN numerator :
         /\ IsZero(denominator[i]) /\ IsNum(numerator[i]) /\ ~IsZero(numerator[i])
         /\ IsNum(numerator[j]) /\ IsNum(denominator[j]) /\ ~IsZero(denominator[j])
         /\ quotient[j] = Num(-3, 2)

C6_CleanerIdempotent ==
    fpc = "twice" => out2.kind = "df" /\ CleanedView(out2) = CleanedView(out1)

\* C7: the merged frame has every row of every discovered table exactly once,
\* the rows of the k-th table tagged flight_ + k zero-padded to 3 digits, and
\* is sorted by (flight_id, time); Scenario E gives 12 rows, 5 of flight_001
\* then 7 of flight_002.
C7_MergeKeepsAndTagsRows ==
    mpc = "merged" =>
        LET fs == unmerged(tables)
            inFile == UNION {{<<k, p>> : p \in DOMAIN fs[k].rows} : k \in DOMAIN fs}
        IN  /\ Len(merged) = Cardinality(inFile)
            /\ \A c \in inFile :
                 \E i \in DOMAIN merged :
                    /\ merged[i].src = c[1] /\ merged[i].pos = c[2]
                    /\ merged[i].time = fs[c[1]].rows[c[2]]
                    /\ merged[i].flight_id =
                          <<c[1] \div 100, (c[1] \div 10) % 10, c[1] % 10>>
            /\ \A i \in 2..Len(merged) : ~RowLess(merged[i], merged[i - 1])
            /\ tables = ScenarioE =>
                 /\ Len(merged) = 12
                 /\ \A i \in 1..5 : merged[i].flight_id = <<0, 0, 1>>
                 /\ \A i \in 6..12 : merged[i].flight_id = <<0, 0, 2>>

\* Scenario E merged: 12 rows
C7_Witness ==
    /\ mpc = "merged"
    /\ tables = ScenarioE
    /\ Len(merged) = 12

C9_LastWriteWins ==
    LET saved == {i \in DOMAIN results : results[i].kind = "df"}
    IN  artifact = IF saved = {} THEN Stale
                   ELSE results[CHOOSE i \in saved : \A j \in saved : j <= i]

\* a finished batch of two different trajectories and then a skipped file
C9_Witness ==
    /\ bpc = "done"
    /\ Len(results) = 3
    /\ results[1].kind = "df" /\ results[2].kind = "df" /\ results[3].kind = "none"
    /\ Len(results[2].rows) > 0
    /\ results[1] # results[2]
    /\ artifact = results[2]

\* C10: for a file with every essential column, preprocess_file returns None
\* when no row is left after both row droppings, and otherwise a trajectory of
\* at least one row whose icao24 is the first sorted row's ("unknown" without
\* the column).
C10_EmptyIsSkipped ==
    (fpc \in {"once", "twice"} /\ PassesSkipChecks(raw)) =>
        IF Len(ParsedRows(raw)) = 0 THEN out1 = None
        ELSE /\ out1.kind = "df"
             /\ Len(out1.rows) >= 1
             /\ \E s \in sort_values(ParsedRows(raw)) :
                  \A i \in DOMAIN out1.rows :
                     out1.rows[i].icao24 =
                        IF "icao24" \in raw.cols THEN s[1].icao24 ELSE "unknown"

=============================================================================
